---- MODULE Spec2Model ----
(***************************************************************************)
(* Model of radiative_cooling_simulation.py: the module-level script that  *)
(* builds the evaluation grid, integrates the cooling ODE, derives the     *)
(* cooling-rate series, locates threshold crossings with                   *)
(* time_to_reach_temperature, repeats the integration in the emissivity /  *)
(* mass / specific-heat sweeps and the variable-emissivity run, and        *)
(* reports the intersection of the two cooling curves.  Array indexes are  *)
(* the code's 0-based indexes (At).                                        *)
(*                                                                         *)
(* A float64 value is carried as IEEE 754 defines it: a sign, a            *)
(* significand of 53 binary digits and a binary exponent, or a signed      *)
(* zero, a subnormal number, inf, -inf or nan.  The significand is a       *)
(* natural number written in digits of base 2^14, so that no intermediate  *)
(* result of the arithmetic leaves the integers TLC computes with.  An     *)
(* operation forms the exact result and Round maps it to the nearest       *)
(* double, ties to even, with gradual underflow and overflow to inf.       *)
(* Each double has exactly one representation; comparisons are by value.   *)
(***************************************************************************)
EXTENDS Integers, Sequences, FiniteSets, TLC

\* ---------------------------------------------------------------- bounds
MaxTotalTime == 2
MaxTimeStep == 2
MaxLen == 3
MaxTime == 5

\* ------------------------------------------------------ program constants
T_initial == 600
T_ambient == 300

\* ------------------------------------------------------- integer helpers
Abs(x) == IF x < 0 THEN -x ELSE x
Sgn(x) == IF x < 0 THEN -1 ELSE IF x > 0 THEN 1 ELSE 0
Max(a, b) == IF a >= b THEN a ELSE b
Min(a, b) == IF a <= b THEN a ELSE b

\* ------------------------------------------------------- natural numbers
\* A natural number of any size is the sequence of its digits in base 2^14,
\* least significant first, without leading zero digits; <<>> is 0.
LimbBits == 14
Base == 16384

RECURSIVE Big(_)
Big(n) == IF n = 0 THEN <<>> ELSE <<n % Base>> \o Big(n \div Base)

RECURSIVE NTrim(_)
NTrim(a) ==
    IF a = <<>> THEN a
    ELSE IF a[Len(a)] # 0 THEN a
    ELSE NTrim(SubSeq(a, 1, Len(a) - 1))

Limb(a, i) == IF i >= 1 /\ i <= Len(a) THEN a[i] ELSE 0

\* -1, 0 or 1 as a < b, a = b or a > b
RECURSIVE NCmpFrom(_, _, _)
NCmpFrom(a, b, i) ==
    IF i = 0 THEN 0
    ELSE IF a[i] < b[i] THEN -1
    ELSE IF a[i] > b[i] THEN 1
    ELSE NCmpFrom(a, b, i - 1)
NCmp(a, b) ==
    IF Len(a) < Len(b) THEN -1
    ELSE IF Len(a) > Len(b) THEN 1
    ELSE NCmpFrom(a, b, Len(a))

\* a + b
RECURSIVE NAddFrom(_, _, _, _)
NAddFrom(a, b, i, carry) ==
    IF i > Len(a) /\ i > Len(b) THEN Big(carry)
    ELSE <<(Limb(a, i) + Limb(b, i) + carry) % Base>>
         \o NAddFrom(a, b, i + 1, (Limb(a, i) + Limb(b, i) + carry) \div Base)
NAdd(a, b) == NAddFrom(a, b, 1, 0)

\* a - b, for a >= b
RECURSIVE NSubFrom(_, _, _, _)
NSubFrom(a, b, i, borrow) ==
    IF i > Len(a) THEN <<>>
    ELSE <<(a[i] - Limb(b, i) - borrow) % Base>>
         \o NSubFrom(a, b, i + 1, IF a[i] - Limb(b, i) - borrow < 0 THEN 1 ELSE 0)
NSub(a, b) == NTrim(NSubFrom(a, b, 1, 0))

\* a * d for one digit d
RECURSIVE NMulSmallFrom(_, _, _, _)
NMulSmallFrom(a, d, i, carry) ==
    IF i > Len(a) THEN Big(carry)
    ELSE <<(a[i] * d + carry) % Base>>
         \o NMulSmallFrom(a, d, i + 1, (a[i] * d + carry) \div Base)
NMulSmall(a, d) == IF d = 0 THEN <<>> ELSE NMulSmallFrom(a, d, 1, 0)

\* a * Base^n
NShiftLimbs(a, n) == IF a = <<>> THEN a ELSE [i \in 1..n |-> 0] \o a

\* a * b
RECURSIVE NMulFrom(_, _, _)
NMulFrom(a, b, j) ==
    IF j > Len(b) THEN <<>>
    ELSE NAdd(NShiftLimbs(NMulSmall(a, b[j]), j - 1), NMulFrom(a, b, j + 1))
NMul(a, b) == NMulFrom(a, b, 1)

\* floor(a / d) for one digit d > 0
RECURSIVE NDivSmallFrom(_, _, _, _)
NDivSmallFrom(a, d, i, rem) ==
    IF i = 0 THEN <<>>
    ELSE NDivSmallFrom(a, d, i - 1, (rem * Base + a[i]) % d)
         \o <<(rem * Base + a[i]) \div d>>
NDivSmall(a, d) == NTrim(NDivSmallFrom(a, d, Len(a), 0))

\* the number of binary digits of a
RECURSIVE BitsOf(_)
BitsOf(d) ==
    IF d >= 16 THEN 4 + BitsOf(d \div 16)
    ELSE IF d >= 4 THEN (IF d >= 8 THEN 4 ELSE 3)
    ELSE IF d >= 2 THEN 2 ELSE d
NBits(a) == IF a = <<>> THEN 0 ELSE (Len(a) - 1) * LimbBits + BitsOf(a[Len(a)])

\* a * 2^n and floor(a / 2^n)
NShl(a, n) ==
    NShiftLimbs(IF n % LimbBits = 0 THEN a ELSE NMulSmall(a, 2 ^ (n % LimbBits)),
                n \div LimbBits)
NShr(a, n) ==
    IF n \div LimbBits >= Len(a) THEN <<>>
    ELSE IF n % LimbBits = 0 THEN SubSeq(a, n \div LimbBits + 1, Len(a))
    ELSE NDivSmall(SubSeq(a, n \div LimbBits + 1, Len(a)), 2 ^ (n % LimbBits))

NOdd(a) == a # <<>> /\ a[1] % 2 = 1
\* the binary digit of a that has weight 2^n
NBit(a, n) == (Limb(a, n \div LimbBits + 1) \div 2 ^ (n % LimbBits)) % 2
\* a is a multiple of 2^n
NLowZero(a, n) ==
    /\ \A i \in 1..Min(n \div LimbBits, Len(a)) : a[i] = 0
    /\ Limb(a, n \div LimbBits + 1) % (2 ^ (n % LimbBits)) = 0

\* Long division of n by d, whose leading digit is at least Base / 2.  The
\* leading Len(d) - 1 digits of n start the running remainder r, and the
\* digits below them are brought down one at a time.  A quotient digit is
\* estimated from the two leading digits of r (r < d * Base) and the
\* leading digit of d, lowered while the next digit of d shows it too
\* large, and lowered once more when its product with d exceeds r.
Top2(r, d) == Limb(r, Len(d) + 1) * Base + Limb(r, Len(d))
RECURSIVE Refine(_, _, _, _)
Refine(r, d, q, rest) ==
    IF rest < Base /\ q * Limb(d, Len(d) - 1) > rest * Base + Limb(r, Len(d) - 1)
    THEN Refine(r, d, q - 1, rest + d[Len(d)])
    ELSE q
FirstGuess(r, d, q) == Refine(r, d, q, Top2(r, d) - q * d[Len(d)])
Estimate(r, d) == FirstGuess(r, d, Min(Base - 1, Top2(r, d) \div d[Len(d)]))

BringDown(r, digit) == NTrim(<<digit>> \o r)

\* <<quotient, remainder>> after the digits i, i-1, ..., 1 of n are brought
\* down to the remainder r; qs holds the quotient digits found so far
RECURSIVE NDivFrom(_, _, _, _, _)
NDivDigit(n, d, i, r, qs, q, product) ==
    IF NCmp(product, r) > 0
    THEN NDivFrom(n, d, i - 1, NSub(r, NSub(product, d)), <<q - 1>> \o qs)
    ELSE NDivFrom(n, d, i - 1, NSub(r, product), <<q>> \o qs)
NDivGuess(n, d, i, r, qs, q) == NDivDigit(n, d, i, r, qs, q, NMulSmall(d, q))
NDivStep(n, d, i, r, qs) ==
    IF NCmp(r, d) < 0 THEN NDivFrom(n, d, i - 1, r, <<0>> \o qs)
    ELSE NDivGuess(n, d, i, r, qs, Estimate(r, d))
NDivFrom(n, d, i, r, qs) ==
    IF i = 0 THEN <<NTrim(qs), r>> ELSE NDivStep(n, d, i, BringDown(r, n[i]), qs)
NDivMod(n, d) ==
    IF Len(n) < Len(d) THEN <<<<>>, n>>
    ELSE NDivFrom(n, d, Len(n) - Len(d) + 1, SubSeq(n, Len(n) - Len(d) + 2, Len(n)), <<>>)

\* ------------------------------------------------------ float64 arithmetic
\* A float64 is the record of its kind, its sign and, when finite, the
\* integers man and exp with value sign * man * 2^exp: man has 53 binary
\* digits, or fewer with exp = MinExp (a subnormal number), or is 0 with
\* exp = 0.  Every double has one such record, so records are equal exactly
\* when the doubles are the same.
Precision == 53
MinExp == -1074
MaxBits == 1024

Zero(s) == [kind |-> "finite", sign |-> s, exp |-> 0, man |-> <<>>]
Inf(s) == [kind |-> "inf", sign |-> s, exp |-> 0, man |-> <<>>]
NaN == [kind |-> "nan", sign |-> 0, exp |-> 0, man |-> <<>>]

IsFinite(x) == x.kind = "finite"
IsNaN(x) == x.kind = "nan"
IsZero(x) == x.kind = "finite" /\ x.man = <<>>

\* the double sign * man * 2^exp for man of at most 54 binary digits, the
\* 54th only in man = 2^53
PackBits(s, exp, man, bits) ==
    IF man = <<>> THEN Zero(s)
    ELSE IF exp + bits > MaxBits THEN Inf(s)
    ELSE IF bits > Precision
    THEN [kind |-> "finite", sign |-> s, exp |-> exp + 1, man |-> NShr(man, 1)]
    ELSE [kind |-> "finite", sign |-> s, exp |-> exp, man |-> man]
Pack(s, exp, man) == PackBits(s, exp, man, NBits(man))

\* Round(s, n, e, sticky): the double nearest to s * (n + r) * 2^e, ties to
\* even, where r = 0 when sticky = 0 and 0 < r < 1 when sticky = 1
RoundEven(s, exp, q, half, below) ==
    Pack(s, exp, IF half /\ (below \/ NOdd(q)) THEN NAdd(q, Big(1)) ELSE q)
RoundBy(s, n, e, sticky, bits, shift) ==
    IF shift <= 0 THEN PackBits(s, e + shift, NShl(n, -shift), bits - shift)
    ELSE RoundEven(s, e + shift, NShr(n, shift), NBit(n, shift - 1) = 1,
                   sticky = 1 \/ ~NLowZero(n, shift - 1))
RoundBits(s, n, e, sticky, bits) ==
    RoundBy(s, n, e, sticky, bits, Max(bits - Precision, MinExp - e))
Round(s, n, e, sticky) == RoundBits(s, n, e, sticky, NBits(n))

\* the double of the integer n
F(n) == Round(IF n < 0 THEN -1 ELSE 1, Big(Abs(n)), 0, 0)
\* the double next above the double of the integer n > 0
NextAfter(n) == Round(1, NAdd(F(n).man, Big(1)), F(n).exp, 0)

\* the sign of a float that is not nan: -1, 0 or 1
FSgn(x) == IF IsZero(x) THEN 0 ELSE x.sign

FNeg(x) == [x EXCEPT !.sign = -@]

\* the sum of sx * a * 2^e and sy * b * 2^e
SubAligned(sx, a, sy, b, e, cmp) ==
    IF cmp = 0 THEN Zero(1)
    ELSE IF cmp > 0 THEN Round(sx, NSub(a, b), e, 0)
    ELSE Round(sy, NSub(b, a), e, 0)
AddAligned(sx, a, sy, b, e) ==
    IF sx = sy THEN Round(sx, NAdd(a, b), e, 0)
    ELSE SubAligned(sx, a, sy, b, e, NCmp(a, b))
\* the sum of x and y when y is less than a quarter of the last digit of x
AddFar(x, y) ==
    IF x.sign = y.sign THEN Round(x.sign, NShl(x.man, 2), x.exp - 2, 1)
    ELSE Round(x.sign, NSub(NShl(x.man, 2), Big(1)), x.exp - 2, 1)
FarApart == 60
AddFinite(x, y) ==
    IF IsZero(x) THEN (IF IsZero(y) /\ x.sign # y.sign THEN Zero(1) ELSE y)
    ELSE IF IsZero(y) THEN x
    ELSE IF x.exp - y.exp > FarApart THEN AddFar(x, y)
    ELSE IF y.exp - x.exp > FarApart THEN AddFar(y, x)
    ELSE AddAligned(x.sign, NShl(x.man, x.exp - Min(x.exp, y.exp)),
                    y.sign, NShl(y.man, y.exp - Min(x.exp, y.exp)), Min(x.exp, y.exp))

\* x + y, x - y and x * y in float64
FAdd(x, y) ==
    IF IsNaN(x) \/ IsNaN(y) THEN NaN
    ELSE IF IsFinite(x) /\ IsFinite(y) THEN AddFinite(x, y)
    ELSE IF IsFinite(y) THEN x
    ELSE IF IsFinite(x) THEN y
    ELSE IF x = y THEN x ELSE NaN
FSub(x, y) == FAdd(x, FNeg(y))
FMul(x, y) ==
    IF IsNaN(x) \/ IsNaN(y) THEN NaN
    ELSE IF IsFinite(x) /\ IsFinite(y)
    THEN Round(x.sign * y.sign, NMul(x.man, y.man), x.exp + y.exp, 0)
    ELSE IF IsZero(x) \/ IsZero(y) THEN NaN
    ELSE Inf(x.sign * y.sign)

\* the double nearest to s * (a * 2^ea) / (b * 2^eb), a and b not 0: a is
\* scaled by 2^n to give a quotient of at least 56 binary digits, and both
\* by 2^t to give b a leading digit of at least Base / 2
DivRounded(s, qr, e) == Round(s, qr[1], e, IF qr[2] = <<>> THEN 0 ELSE 1)
DivScaled(s, a, ea, b, eb, n, t) ==
    DivRounded(s, NDivMod(NShl(a, n + t), NShl(b, t)), ea - eb - n)
DivNat(s, a, ea, b, eb) ==
    DivScaled(s, a, ea, b, eb, Max(0, Precision + 3 + NBits(b) - NBits(a)),
              (LimbBits - (NBits(b) % LimbBits)) % LimbBits)

\* x / y in float64, with numpy's results for division by zero
FDiv(x, y) ==
    IF IsNaN(x) \/ IsNaN(y) THEN NaN
    ELSE IF ~IsFinite(x) THEN (IF IsFinite(y) THEN Inf(x.sign * y.sign) ELSE NaN)
    ELSE IF ~IsFinite(y) THEN Zero(x.sign * y.sign)
    ELSE IF IsZero(y) THEN (IF IsZero(x) THEN NaN ELSE Inf(x.sign * y.sign))
    ELSE IF IsZero(x) THEN Zero(x.sign * y.sign)
    ELSE DivNat(x.sign * y.sign, x.man, x.exp, y.man, y.exp)

\* the float64 value of the decimal literal n / d, d a power of ten
Lit(n, d) == IF n = 0 THEN Zero(1) ELSE DivNat(1, Big(n), 0, Big(d), 0)

\* -1, 0 or 1 as |x| < |y|, |x| = |y| or |x| > |y|, for x and y not nan
MagCmp(x, y) ==
    IF ~IsFinite(x) THEN (IF ~IsFinite(y) THEN 0 ELSE 1)
    ELSE IF ~IsFinite(y) THEN -1
    ELSE IF IsZero(x) THEN (IF IsZero(y) THEN 0 ELSE -1)
    ELSE IF IsZero(y) THEN 1
    ELSE IF x.exp < y.exp THEN -1
    ELSE IF x.exp > y.exp THEN 1
    ELSE NCmp(x.man, y.man)
\* -1, 0 or 1 as x < y, x = y or x > y, for x and y not nan
FCmp(x, y) ==
    IF FSgn(x) # FSgn(y) THEN (IF FSgn(x) < FSgn(y) THEN -1 ELSE 1)
    ELSE FSgn(x) * MagCmp(x, y)

\* x < y, x <= y and x == y on floats; every comparison with nan is false
FLt(x, y) == ~IsNaN(x) /\ ~IsNaN(y) /\ FCmp(x, y) < 0
FLe(x, y) == ~IsNaN(x) /\ ~IsNaN(y) /\ FCmp(x, y) <= 0
FEq(x, y) == ~IsNaN(x) /\ ~IsNaN(y) /\ FCmp(x, y) = 0

\* ------------------------------------------------------------ value sets
\* temperatures a solver sample may take, and targets a caller may ask for
TempValues == {F(300), F(400), F(500), F(600)}
LocTempValues == TempValues \cup {NextAfter(450)}
Targets == {F(300), F(330), F(400), F(450), NextAfter(450), F(500), F(570), F(600)}

\* sweep lists (emissivities and masses in tenths)
emissivities == <<2, 4, 6, 8, 10>>
masses == <<2, 4, 6, 8, 10>>
specific_heats == <<200, 300, 400, 500, 600>>

\* cooling_range and the three fractional targets
cooling_range == T_initial - T_ambient
temp_90_percent == FSub(F(T_initial), FMul(Lit(1, 10), F(cooling_range)))
temp_50_percent == FSub(F(T_initial), FMul(Lit(5, 10), F(cooling_range)))
temp_10_percent == FSub(F(T_initial), FMul(Lit(9, 10), F(cooling_range)))

\* ------------------------------------------------------------- interface
\* code index i (0-based) into a sequence
At(s, i) == s[i + 1]

\* values a name bound to a crossing time can hold
None == [tag |-> "None", val |-> F(0)]
Unset == [tag |-> "unset", val |-> F(0)]
Num(x) == [tag |-> "float", val |-> x]

VARIABLES
    pc,                   \* position in the script
    err,                  \* the exception that ended the script, or "none"
    total_time, time_step,
    t_eval,               \* evaluation grid
    solution,             \* result object of the latest solve_ivp call
    time, temperature,    \* the globals read by time_to_reach_temperature
    original_time, original_temperature,
    cooling_rate,
    time_90_percent, time_50_percent, time_10_percent,
    k,                    \* index of the running sweep iteration
    idx,                  \* indexes where the two cooling curves cross
    call                  \* latest invocation of time_to_reach_temperature

vars == <<pc, err, total_time, time_step, t_eval, solution, time, temperature,
          original_time, original_temperature, cooling_rate,
          time_90_percent, time_50_percent, time_10_percent, k, idx, call>>

\* ------------------------------------------------ time_to_reach_temperature
\* The function reads the globals time and temperature; the operators below
\* take them as ts and Ts, the values bound at the moment of the call.

\* variant of Reached: strict comparison
ReachedStrict(T, target_temp) == FLt(T, target_temp)

\* line 92: the test a sample must pass
Reached(T, target_temp) == FLe(T, target_temp)

\* variant of Scan: the loop keeps going and returns at the last passing index
RECURSIVE ScanLast(_, _, _)
ScanLast(Ts, i, target_temp) ==
    IF i >= Len(Ts) THEN -1
    ELSE LET later == ScanLast(Ts, i + 1, target_temp)
         IN  IF later >= 0 THEN later
             ELSE IF FLe(At(Ts, i), target_temp) THEN i ELSE -1

\* variant of Scan: the loop never tests the sample at index 0
RECURSIVE ScanSkipFirst(_, _, _)
ScanSkipFirst(Ts, i, target_temp) ==
    IF i >= Len(Ts) THEN -1
    ELSE IF i > 0 /\ FLe(At(Ts, i), target_temp) THEN i
    ELSE ScanSkipFirst(Ts, i + 1, target_temp)

\* lines 91-92: the for loop from index i on; the first index whose sample
\* passes the test, or -1 when the loop runs off the end
RECURSIVE Scan(_, _, _)
Scan(Ts, i, target_temp) ==
    IF i >= Len(Ts) THEN -1
    ELSE IF Reached(At(Ts, i), target_temp) THEN i
    ELSE Scan(Ts, i + 1, target_temp)

\* variant of OutOfRange: the initial temperature itself is accepted
OutOfRangeOpen(target_temp) ==
    FLt(F(T_initial), target_temp) \/ FLe(target_temp, F(T_ambient))

\* line 88: the range guard
OutOfRange(target_temp) ==
    FLe(F(T_initial), target_temp) \/ FLe(target_temp, F(T_ambient))

\* line 95: dT, the divisor of the interpolation at index i
SlopeDivisor(Ts, i) == FSub(At(Ts, i - 1), At(Ts, i))

\* variant of Interpolate: the fraction is measured from the later sample
InterpolateFromLater(ts, Ts, i, target_temp) ==
    LET dt == At(ts, i) - At(ts, i - 1)
        dT == FSub(At(Ts, i - 1), At(Ts, i))
        offset == FMul(FDiv(FSub(target_temp, At(Ts, i)), dT), F(dt))
    IN  FAdd(F(At(ts, i - 1)), offset)

\* lines 94-97: the interpolated return value at index i > 0
Interpolate(ts, Ts, i, target_temp) ==
    LET dt == At(ts, i) - At(ts, i - 1)
        dT == SlopeDivisor(Ts, i)
        offset == FMul(FDiv(FSub(At(Ts, i - 1), target_temp), dT), F(dt))
    IN  FAdd(F(At(ts, i - 1)), offset)

\* lines 87-100: the value returned
time_to_reach_temperature(ts, Ts, target_temp) ==
    IF OutOfRange(target_temp) THEN None
    ELSE LET i == Scan(Ts, 0, target_temp)
         IN  IF i < 0 THEN None
             ELSE IF i > 0 THEN Num(Interpolate(ts, Ts, i, target_temp))
             ELSE Num(F(At(ts, i)))

\* one invocation: the argument, the value returned, the index the loop
\* returned at (-1: none), and the divisor of line 96 when it was executed
NoCall == [target |-> F(0), ret |-> Unset, i |-> -1, divided |-> FALSE, dT |-> F(0)]
Invoke(ts, Ts, target_temp) ==
    LET i == IF OutOfRange(target_temp) THEN -1 ELSE Scan(Ts, 0, target_temp)
    IN  [target |-> target_temp,
         ret |-> time_to_reach_temperature(ts, Ts, target_temp),
         i |-> i,
         divided |-> i > 0,
         dT |-> IF i > 0 THEN SlopeDivisor(Ts, i) ELSE F(0)]

\* -------------------------------------------------------- grid and solver
\* np.arange(start, stop, step) on integers
arange(start, stop, step) ==
    LET n == IF stop > start THEN (stop - start + step - 1) \div step ELSE 0
    IN  [j \in 1..n |-> start + (j - 1) * step]

\* solve_ivp rejects a grid with a point outside t_span = (0, total_time)
GridWithinSpan(grid, span_end) == \A j \in 1..Len(grid) : grid[j] >= 0 /\ grid[j] <= span_end

\* sample sequences of length n that start at the initial condition
Samples(n) == {y \in [1..n -> TempValues] : n >= 1 => y[1] = F(T_initial)}

\* what solve_ivp can return on a grid: status 0 with one sample per grid
\* point, or status -1 with the samples it had produced when it stopped
SolverOutcomes(grid) ==
    {[t |-> grid, y |-> y, status |-> 0] : y \in Samples(Len(grid))}
    \cup UNION {{[t |-> SubSeq(grid, 1, n), y |-> y, status |-> -1] : y \in Samples(n)}
                : n \in 1..(Len(grid) - 1)}

NoSolution == [t |-> <<>>, y |-> <<>>, status |-> 0]

\* a print that formats a crossing time with :.1f fails on None
Printable(v) == v.tag = "float"

\* ------------------------------------------------------------------ Init
Init ==
    /\ pc = "grid"
    /\ err = "none"
    /\ total_time \in 1..MaxTotalTime
    /\ time_step \in 1..MaxTimeStep
    /\ t_eval = <<>>
    /\ solution = NoSolution
    /\ time = <<>>
    /\ temperature = <<>>
    /\ original_time = <<>>
    /\ original_temperature = <<>>
    /\ cooling_rate = <<>>
    /\ time_90_percent = Unset
    /\ time_50_percent = Unset
    /\ time_10_percent = Unset
    /\ k = 0
    /\ idx = <<>>
    /\ call = NoCall

\* --------------------------------------------------------------- actions
\* lines 45-46
BuildGrid ==
    /\ pc = "grid"
    /\ t_eval' = arange(0, total_time + time_step, time_step)
    /\ pc' = "solve"
    /\ UNCHANGED <<err, total_time, time_step, solution, time, temperature,
                   original_time, original_temperature, cooling_rate,
                   time_90_percent, time_50_percent, time_10_percent, k, idx, call>>

\* lines 49-74: first integration, binding of time and temperature, copies
MainRun ==
    /\ pc = "solve"
    /\ IF ~GridWithinSpan(t_eval, total_time)
       THEN /\ pc' = "crashed"
            /\ err' = "ValueError"
            /\ UNCHANGED <<solution, time, temperature, original_time, original_temperature>>
       ELSE \E sol \in SolverOutcomes(t_eval) :
            /\ solution' = sol
            /\ time' = sol.t
            /\ temperature' = sol.y
            /\ original_time' = sol.t
            /\ original_temperature' = sol.y
            /\ pc' = "derived"
            /\ err' = err
    /\ call' = NoCall
    /\ UNCHANGED <<total_time, time_step, t_eval, cooling_rate,
                   time_90_percent, time_50_percent, time_10_percent, k, idx>>

\* np.diff on the integer array time and on the float array temperature
diff(a) == [j \in 1..(Len(a) - 1) |-> a[j + 1] - a[j]]
fdiff(a) == [j \in 1..(Len(a) - 1) |-> FSub(a[j + 1], a[j])]

\* lines 82-84 on a trajectory of at least two samples
CoolingRateOf(ts, Ts) ==
    LET n == Len(Ts)
        zeros == [j \in 1..n |-> F(0)]
        q == [j \in 1..(n - 1) |-> FDiv(FNeg(fdiff(Ts)[j]), F(diff(ts)[j]))]
        filled == [j \in 1..n |-> IF j <= n - 1 THEN q[j] ELSE zeros[j]]
    IN  [filled EXCEPT ![n] = filled[n - 1]]

\* lines 82-84: cooling_rate[-2] does not exist on fewer than two samples
ComputeCoolingRate ==
    /\ pc = "derived"
    /\ IF Len(temperature) < 2
       THEN /\ pc' = "crashed"
            /\ err' = "IndexError"
            /\ cooling_rate' = [j \in 1..Len(temperature) |-> F(0)]
       ELSE /\ cooling_rate' = CoolingRateOf(time, temperature)
            /\ pc' = "metrics"
            /\ err' = err
    /\ UNCHANGED <<total_time, time_step, t_eval, solution, time, temperature,
                   original_time, original_temperature,
                   time_90_percent, time_50_percent, time_10_percent, k, idx, call>>

\* lines 108-110 and the prints of lines 169-171
Metrics ==
    /\ pc = "metrics"
    /\ time_90_percent' = time_to_reach_temperature(time, temperature, temp_90_percent)
    /\ time_50_percent' = time_to_reach_temperature(time, temperature, temp_50_percent)
    /\ time_10_percent' = time_to_reach_temperature(time, temperature, temp_10_percent)
    /\ call' = Invoke(time, temperature, temp_10_percent)
    /\ IF Printable(time_90_percent') /\ Printable(time_50_percent') /\ Printable(time_10_percent')
       THEN pc' = "sweep_e" /\ k' = 0 /\ err' = err
       ELSE pc' = "crashed" /\ k' = k /\ err' = "TypeError"
    /\ UNCHANGED <<total_time, time_step, t_eval, solution, time, temperature,
                   original_time, original_temperature, cooling_rate, idx>>

\* one iteration of a sweep loop over list: solve, rebind time and
\* temperature, locate the 50% crossing, print it
SweepIteration(here, list, next) ==
    /\ pc = here
    /\ k < Len(list)
    /\ \E sol \in SolverOutcomes(t_eval) :
        /\ solution' = sol
        /\ time' = sol.t
        /\ temperature' = sol.y
    /\ time_50_percent' = time_to_reach_temperature(time', temperature', temp_50_percent)
    /\ call' = Invoke(time', temperature', temp_50_percent)
    /\ IF Printable(time_50_percent')
       THEN /\ err' = err
            /\ IF k + 1 < Len(list) THEN pc' = here /\ k' = k + 1
                                    ELSE pc' = next /\ k' = 0
       ELSE pc' = "crashed" /\ k' = k /\ err' = "TypeError"
    /\ UNCHANGED <<total_time, time_step, t_eval, original_time, original_temperature,
                   cooling_rate, time_90_percent, time_10_percent, idx>>

\* lines 202-216
EmissivitySweep == SweepIteration("sweep_e", emissivities, "sweep_m")
\* lines 227-241
MassSweep == SweepIteration("sweep_m", masses, "sweep_sh")
\* lines 252-266
SpecificHeatSweep == SweepIteration("sweep_sh", specific_heats, "variable")

\* lines 287-301: the variable-emissivity run and its three crossing times
VariableEmissivityRun ==
    /\ pc = "variable"
    /\ \E sol \in SolverOutcomes(t_eval) :
        /\ solution' = sol
        /\ time' = sol.t
        /\ temperature' = sol.y
    /\ time_90_percent' = time_to_reach_temperature(time', temperature', temp_90_percent)
    /\ time_50_percent' = time_to_reach_temperature(time', temperature', temp_50_percent)
    /\ time_10_percent' = time_to_reach_temperature(time', temperature', temp_10_percent)
    /\ call' = Invoke(time', temperature', temp_10_percent)
    /\ pc' = "report"
    /\ UNCHANGED <<err, total_time, time_step, t_eval, original_time, original_temperature,
                   cooling_rate, k, idx>>

\* numpy broadcasting of two one-dimensional arrays: equal lengths, or one
\* of them of length 1
Broadcastable(a, b) == Len(a) = Len(b) \/ Len(a) = 1 \/ Len(b) = 1
Stretch(a, n) == [j \in 1..n |-> IF Len(a) = 1 THEN a[1] ELSE a[j]]

\* line 305 on broadcastable arrays: the 0-based positions where the sign
\* of original_temperature - temperature changes
SignChanges(orig, Ts) ==
    LET n == IF Len(orig) >= Len(Ts) THEN Len(orig) ELSE Len(Ts)
        sign == [j \in 1..n |-> FSgn(FSub(Stretch(orig, n)[j], Stretch(Ts, n)[j]))]
        changed(j) == diff(sign)[j + 1] # 0
    IN  SelectSeq([j \in 1..(n - 1) |-> j - 1], changed)

\* lines 302-336: the intersection index of line 305, its use at line 315,
\* and the prints of lines 333-336
Report ==
    /\ pc = "report"
    /\ IF ~Broadcastable(original_temperature, temperature)
       THEN pc' = "crashed" /\ err' = "ValueError" /\ idx' = idx
       ELSE /\ idx' = SignChanges(original_temperature, temperature)
            /\ IF Len(idx') < 2 \/ At(idx', 1) >= Len(time)
               THEN pc' = "crashed" /\ err' = "IndexError"
               ELSE IF Printable(time_90_percent) /\ Printable(time_50_percent)
                       /\ Printable(time_10_percent)
               THEN pc' = "done" /\ err' = err
               ELSE pc' = "crashed" /\ err' = "TypeError"
    /\ UNCHANGED <<total_time, time_step, t_eval, solution, time, temperature,
                   original_time, original_temperature, cooling_rate,
                   time_90_percent, time_50_percent, time_10_percent, k, call>>

Next ==
    \/ BuildGrid
    \/ MainRun
    \/ ComputeCoolingRate
    \/ Metrics
    \/ EmissivitySweep
    \/ MassSweep
    \/ SpecificHeatSweep
    \/ VariableEmissivityRun
    \/ Report

Spec == Init /\ [][Next]_vars

\* ------------------------------------------- the locator on any trajectory
\* strictly increasing time axes of length n over 0..MaxTime
TimeAxes(n) == {t \in [1..n -> 0..MaxTime] : \A j \in 1..(n - 1) : t[j] < t[j + 1]}

LocInit ==
    /\ pc = "locator"
    /\ err = "none"
    /\ total_time = 1
    /\ time_step = 1
    /\ t_eval = <<>>
    /\ solution = NoSolution
    /\ \E n \in 0..MaxLen :
        /\ time \in TimeAxes(n)
        /\ temperature \in [1..n -> LocTempValues]
    /\ original_time = <<>>
    /\ original_temperature = <<>>
    /\ cooling_rate = <<>>
    /\ time_90_percent = Unset
    /\ time_50_percent = Unset
    /\ time_10_percent = Unset
    /\ k = 0
    /\ idx = <<>>
    /\ call = NoCall

\* a caller invokes time_to_reach_temperature on the bound trajectory and
\* the function returns
Call ==
    /\ pc = "locator"
    /\ \E target_temp \in Targets : call' = Invoke(time, temperature, target_temp)
    /\ pc' = "returned"
    /\ UNCHANGED <<err, total_time, time_step, t_eval, solution, time, temperature,
                   original_time, original_temperature, cooling_rate,
                   time_90_percent, time_50_percent, time_10_percent, k, idx>>

LocNext == Call

LocatorSpec == LocInit /\ [][LocNext]_vars

\* ================================================================ claims
Called == call.ret.tag # "unset"
InRange(target_temp) == FLt(F(T_ambient), target_temp) /\ FLt(target_temp, F(T_initial))
LastIndex == Len(temperature) - 1

\* indexes of the bound trajectory whose sample is at or below the target
AtOrBelow(target_temp) == {j \in 0..LastIndex : FLe(At(temperature, j), target_temp)}
\* the least element of a non-empty set of indexes
Least(S) == CHOOSE j \in S : \A m \in S : j <= m
\* the natural number a < 2^31 as an integer
RECURSIVE NInt(_)
NInt(a) == IF a = <<>> THEN 0 ELSE a[1] + Base * NInt(Tail(a))
\* a double that is an integer of less than 31 binary digits, and that integer
Plain(x) ==
    /\ IsFinite(x)
    /\ IsZero(x) \/ (x.exp <= 0 /\ NBits(x.man) + x.exp < 31 /\ NLowZero(x.man, -x.exp))
IntOf(x) == x.sign * NInt(NShr(x.man, -x.exp))
\* eps = 2^-44, the spacing of the doubles in [256, 512)
eps_exponent == -44
\* |a - b|
NDist(a, b) == IF NCmp(a, b) >= 0 THEN NSub(a, b) ELSE NSub(b, a)
\* |x * q - p| * 2^Max(-x.exp, 0) for a finite double x and integers p, q > 0
Dist(x, p, q) ==
    IF FSgn(x) * Sgn(p) < 0
    THEN NAdd(NShl(NMul(x.man, Big(q)), Max(x.exp, 0)), NShl(Big(Abs(p)), Max(-x.exp, 0)))
    ELSE NDist(NShl(NMul(x.man, Big(q)), Max(x.exp, 0)), NShl(Big(Abs(p)), Max(-x.exp, 0)))
\* |x - p / q| < eps, for integers p and q > 0
Near(x, p, q) ==
    /\ IsFinite(x)
    /\ NCmp(NShl(Dist(x, p, q), -eps_exponent), NShl(Big(q), Max(-x.exp, 0))) < 0
\* the rational number of the interpolation at index i > 0 on integer samples
\* and target, as numerator and divisor
ExactNumerator(i, target_temp) ==
    At(time, i - 1) * (IntOf(At(temperature, i - 1)) - IntOf(At(temperature, i)))
    + (IntOf(At(temperature, i - 1)) - IntOf(target_temp)) * (At(time, i) - At(time, i - 1))
ExactDivisor(i) == IntOf(At(temperature, i - 1)) - IntOf(At(temperature, i))

\* C1: on a target strictly between T_ambient and T_initial, the value
\* returned is taken at the FIRST index i whose sample is at or below the
\* target: time[0] itself when i = 0, and for i > 0 the linear interpolation
\* time[i-1] + (T[i-1] - target) / (T[i-1] - T[i]) * (time[i] - time[i-1]),
\* evaluated in float64; on integer samples and targets it differs from
\* that rational number by less than eps.
C1_FirstCrossingInterpolated ==
    (Called /\ InRange(call.target) /\ AtOrBelow(call.target) # {}) =>
        LET i == Least(AtOrBelow(call.target))
        IN  /\ call.i = i
            /\ call.ret.tag = "float"
            /\ IF i = 0
               THEN call.ret.val = F(At(time, 0))
               ELSE LET Tp == At(temperature, i - 1)
                        Tc == At(temperature, i)
                        dt == At(time, i) - At(time, i - 1)
                    IN  /\ call.ret.val =
                             FAdd(F(At(time, i - 1)),
                                  FMul(FDiv(FSub(Tp, call.target), FSub(Tp, Tc)), F(dt)))
                        /\ (Plain(Tp) /\ Plain(Tc) /\ Plain(call.target)) =>
                             Near(call.ret.val, ExactNumerator(i, call.target), ExactDivisor(i))

\* C1 witness: a call that interpolated strictly inside a segment that is
\* not the first one, on integer samples and target, whose sample at the
\* crossing index is not the target and whose result is not an integer and
\* not the rational number itself
C1_Witness ==
    /\ Called
    /\ call.i > 1
    /\ call.ret.tag = "float"
    /\ ~Plain(call.ret.val)
    /\ Plain(At(temperature, call.i - 1)) /\ Plain(At(temperature, call.i)) /\ Plain(call.target)
    /\ Dist(call.ret.val, ExactNumerator(call.i, call.target), ExactDivisor(call.i)) # <<>>
    /\ FLt(At(temperature, call.i), call.target)

\* C2: the call returns None exactly when the target is at or above
\* T_initial, at or below T_ambient, or above no sample of the trajectory;
\* in every other case it returns a finite number.
C2_NoneExactlyWhenUndefined ==
    Called =>
        /\ call.ret.tag \in {"None", "float"}
        /\ call.ret.tag = "None" <=>
             \/ FLe(F(T_initial), call.target)
             \/ FLe(call.target, F(T_ambient))
             \/ \A j \in 0..LastIndex : FLt(call.target, At(temperature, j))
        /\ call.ret.tag = "float" => IsFinite(call.ret.val)

\* C2 witness: an in-range target that no sample of a non-empty trajectory
\* reaches, answered with None
C2_Witness ==
    /\ Called
    /\ InRange(call.target)
    /\ Len(temperature) >= 2
    /\ \A j \in 0..LastIndex : FLt(call.target, At(temperature, j))
    /\ call.ret = None

\* a trajectory as a cooling run produces it: it starts at T_initial and
\* never rises
CoolingTrajectory ==
    /\ Len(temperature) >= 1
    /\ FEq(At(temperature, 0), F(T_initial))
    /\ \A j \in 1..LastIndex : FLe(At(temperature, j), At(temperature, j - 1))
StrictlyCooling ==
    /\ CoolingTrajectory
    /\ \A j \in 1..LastIndex : FLt(At(temperature, j), At(temperature, j - 1))

\* C3 as stated: on a cooling trajectory the trajectory's own first
\* temperature is located at the first sample time and its own last
\* temperature at the last sample time.
C3_RoundTripAsStated ==
    (Called /\ StrictlyCooling) =>
        /\ FEq(call.target, At(temperature, 0)) => call.ret = Num(F(At(time, 0)))
        /\ FEq(call.target, At(temperature, LastIndex)) => call.ret = Num(F(At(time, LastIndex)))

\* C3 amended: on a cooling trajectory the first temperature, being
\* T_initial, is answered with None; the last temperature, when it lies
\* strictly between T_ambient and T_initial, is located at the time of the
\* first sample that has that temperature, which is the last sample time
\* when the temperatures strictly decrease, and is answered with None when
\* it does not lie strictly between them.
C3_RoundTripAmended ==
    (Called /\ CoolingTrajectory) =>
        LET last == At(temperature, LastIndex)
            first == Least({j \in 0..LastIndex : FEq(At(temperature, j), last)})
        IN  /\ FEq(call.target, At(temperature, 0)) => call.ret = None
            /\ (FEq(call.target, last) /\ InRange(last)) => call.ret = Num(F(At(time, first)))
            /\ (FEq(call.target, last) /\ InRange(last) /\ StrictlyCooling)
                   => call.ret = Num(F(At(time, LastIndex)))
            /\ (FEq(call.target, last) /\ ~InRange(last)) => call.ret = None

\* C3 witness: a strictly cooling trajectory of three samples whose last
\* temperature was asked for and located at the last sample time
C3_Witness ==
    /\ Called
    /\ StrictlyCooling
    /\ Len(temperature) >= 3
    /\ FEq(call.target, At(temperature, LastIndex))
    /\ call.ret = Num(F(At(time, LastIndex)))

\* C4: whenever the call executes the division of line 96, its divisor
\* temperature[i-1] - temperature[i] is not zero, also on trajectories with
\* equal consecutive samples.
C4_NoZeroDivisor ==
    (Called /\ call.divided) => (~IsZero(call.dT) /\ IsFinite(call.ret.val))

\* C4 witness: a call that divided, on a trajectory holding a zero-slope
\* segment whose samples are at or below the target
C4_Witness ==
    /\ Called
    /\ call.divided
    /\ \E j \in 1..LastIndex :
        /\ FEq(At(temperature, j - 1), At(temperature, j))
        /\ FLe(At(temperature, j), call.target)

\* C6: the cooling-rate step succeeds on every trajectory and leaves a
\* series as long as the trajectory, whose entry j (all but the last) is
\* -(T[j+1] - T[j]) / (time[j+1] - time[j]) and whose last entry copies the
\* one before it; the entries are float64 quotients, less than eps away
\* from that rational number.
C6_CoolingRateTotal ==
    (pc \notin {"grid", "solve", "derived"} /\ err # "ValueError") =>
        LET n == Len(original_temperature)
        IN  /\ err # "IndexError"
            /\ Len(cooling_rate) = n
            /\ \A j \in 0..(n - 2) :
                 LET dT == IntOf(At(original_temperature, j + 1)) - IntOf(At(original_temperature, j))
                     dt == At(original_time, j + 1) - At(original_time, j)
                 IN  Near(At(cooling_rate, j), -dT, dt)
            /\ n >= 2 => At(cooling_rate, n - 1) = At(cooling_rate, n - 2)

\* C7: the grid starts at 0, rises by time_step from point to point, stays
\* inside [0, total_time] and ends at total_time.
C7_GridInsideSpan ==
    pc # "grid" =>
        /\ Len(t_eval) >= 1
        /\ At(t_eval, 0) = 0
        /\ \A j \in 1..(Len(t_eval) - 1) : At(t_eval, j) = At(t_eval, j - 1) + time_step
        /\ \A j \in 0..(Len(t_eval) - 1) : At(t_eval, j) >= 0 /\ At(t_eval, j) <= total_time
        /\ At(t_eval, Len(t_eval) - 1) = total_time

\* C8: a later integration run does not change the crossing time the
\* locator returned for the fixed 50% target before that run.
C8_RunsDoNotChangeCrossing ==
    [][time_50_percent.tag # "unset" => time_50_percent' = time_50_percent]_vars

\* C9: a run the solver ended unsuccessfully is surfaced as an
\* IntegrationFailure, and its truncated samples are not bound to time and
\* temperature.
C9_FailureSurfaced ==
    solution.status # 0 =>
        /\ err = "IntegrationFailure"
        /\ time # solution.t
        /\ temperature # solution.y

\* the crossing time r is defined and not later than t
NotLater(r, t) == r.tag = "float" /\ FLe(r.val, t)

\* for in-range targets a < b, a the target of the call: a defined crossing
\* time of a implies a defined crossing time of b that is not later
MonotoneInTarget ==
    (Called /\ InRange(call.target) /\ call.ret.tag = "float") =>
        \A b \in Targets :
            (FLt(call.target, b) /\ InRange(b)) =>
                NotLater(time_to_reach_temperature(time, temperature, b), call.ret.val)

\* C10 as stated: the crossing time is monotone in the target, and an
\* interpolated result at index i lies in (time[i-1], time[i]].
C10_AsStated ==
    /\ MonotoneInTarget
    /\ (Called /\ call.divided) =>
         /\ IsFinite(call.ret.val)
         /\ FLt(F(At(time, call.i - 1)), call.ret.val)
         /\ FLe(call.ret.val, F(At(time, call.i)))

\* C10 amended: the crossing time is monotone in the target, and an
\* interpolated result at index i lies in [time[i-1], time[i]]; the lower end
\* is attained when the float64 sum of line 97 absorbs its offset.
C10_MonotoneInTarget ==
    /\ MonotoneInTarget
    /\ (Called /\ call.divided) =>
         /\ IsFinite(call.ret.val)
         /\ FLe(F(At(time, call.i - 1)), call.ret.val)
         /\ FLe(call.ret.val, F(At(time, call.i)))

\* C10 witness: a call that interpolated for a target a, on a trajectory
\* where a warmer in-range target b is crossed in the same segment, earlier
C10_Witness ==
    /\ Called
    /\ call.divided
    /\ \E b \in Targets :
        /\ FLt(call.target, b)
        /\ InRange(b)
        /\ Scan(temperature, 0, b) = call.i
        /\ FLt(time_to_reach_temperature(time, temperature, b).val, call.ret.val)

====
